---- MODULE Spec2Model ----
(***************************************************************************)
(* checkUserExists: a Lambda handler that decodes a JSON payload, loads    *)
(* the AWS configuration, issues one DynamoDB Query on the email index of  *)
(* the user table and answers whether a user with that email exists.       *)
(* The source file holds two programs: variant "A" answers with an API     *)
(* Gateway proxy response (StatusCode, Body), variant "B" with a           *)
(* structured Response (StatusCode, Exists, Message).                      *)
(***************************************************************************)
EXTENDS Integers, Sequences, FiniteSets, TLC

(* ---------------- bounds of the model ---------------- *)

\* number of handler invocations that may be in flight together
NumInv == 2
\* largest number of items the table holds for one email
MaxItems == 2

Inv == 1 .. NumInv
Variants == {"A", "B"}
StoredEmails == {"a@x", "b@x"}

(* ---------------- payloads and encoding/json ---------------- *)

\* the payload texts the runtime hands to the handler
Payloads ==
    { "not-json", "null", "[]", "\"a@x\"", "42", "true",
      "{}", "{\"email\":null}", "{\"email\":7}",
      "{\"email\":\"a@x\"}", "{\"email\":\"b@x\"}" }

JInvalid == [valid |-> FALSE, kind |-> "none", field |-> "none", str |-> ""]
JTop(k) == [valid |-> TRUE, kind |-> k, field |-> "none", str |-> ""]
JObj(f, s) == [valid |-> TRUE, kind |-> "object", field |-> f, str |-> s]

\* the JSON value a payload text denotes: its top-level kind and, for an
\* object, the kind and the text of its "email" member
ParseJSON(text) ==
    CASE text = "null" -> JTop("null")
      [] text = "[]" -> JTop("array")
      [] text = "\"a@x\"" -> JTop("string")
      [] text = "42" -> JTop("number")
      [] text = "true" -> JTop("bool")
      [] text = "{}" -> JObj("absent", "")
      [] text = "{\"email\":null}" -> JObj("null", "")
      [] text = "{\"email\":7}" -> JObj("number", "")
      [] text = "{\"email\":\"a@x\"}" -> JObj("string", "a@x")
      [] text = "{\"email\":\"b@x\"}" -> JObj("string", "b@x")
      [] OTHER -> JInvalid

\* the zero value of Request
ZeroRequest == [Email |-> ""]

\* json.Unmarshal(payload, &req) into a Request struct: a syntax error for
\* text that is not JSON; JSON null is a no-op that leaves req untouched; an
\* object sets Email from a string member, leaves it for an absent or null
\* member and reports a type error for any other member; every other
\* top-level value is a type error.
Unmarshal(text) ==
    LET v == ParseJSON(text) IN
    IF ~v.valid THEN [err |-> "SyntaxError", req |-> ZeroRequest]
    ELSE IF v.kind = "null" THEN [err |-> "nil", req |-> ZeroRequest]
    ELSE IF v.kind = "object" THEN
        IF v.field = "string" THEN [err |-> "nil", req |-> [Email |-> v.str]]
        ELSE IF v.field \in {"absent", "null"}
            THEN [err |-> "nil", req |-> ZeroRequest]
        ELSE [err |-> "UnmarshalTypeError", req |-> ZeroRequest]
    ELSE [err |-> "UnmarshalTypeError", req |-> ZeroRequest]

\* json.Marshal(Response{Exists: exists}) of variant A
MarshalResponse(exists) ==
    IF exists THEN "{\"exists\":true}" ELSE "{\"exists\":false}"

\* what a client reads out of a variant A body as the "exists" member:
\* "true" or "false" for the JSON object, "none" for a body that is no such
\* object
BodyExists(body) ==
    CASE body = "{\"exists\":true}" -> "true"
      [] body = "{\"exists\":false}" -> "false"
      [] OTHER -> "none"

(* ---------------- the store ---------------- *)

TableName == "troggle_user"
IndexName == "email-index"

\* number of items the email index of the user table holds for an email
Count(st, email) == IF email \in DOMAIN st THEN st[email] ELSE 0

ErrResult == [err |-> TRUE, n |-> 0, more |-> FALSE]

\* the QueryInput UserExists builds
QueryInputNoIndex(email, tableName) ==
    [TableName |-> tableName, IndexName |-> "",
     KeyConditionExpression |-> "email = :email", email |-> email]

QueryInput(email, tableName) ==
    [TableName |-> tableName, IndexName |-> IndexName,
     KeyConditionExpression |-> "email = :email", email |-> email]

\* the outcomes db.Query can have: an error, or the first page of the
\* matching items (n of them, at least one when any exists) with `more` set
\* when the store reports a LastEvaluatedKey
QueryOutcomes(st, input) ==
    {ErrResult} \cup
    IF input.TableName = TableName /\ input.IndexName = IndexName
    THEN LET c == Count(st, input.email) IN
         IF c = 0 THEN {[err |-> FALSE, n |-> 0, more |-> FALSE]}
         ELSE {[err |-> FALSE, n |-> k, more |-> (k < c)] : k \in 1 .. c}
    ELSE {}

(* ---------------- UserExists ---------------- *)

existsMsg == "User exists"
notExistsMsg == "User does not exist"

UserExistsFailOpen(res) ==
    IF res.err THEN [exists |-> TRUE, msg |-> existsMsg]
    ELSE IF res.n > 0 THEN [exists |-> TRUE, msg |-> existsMsg]
    ELSE [exists |-> FALSE, msg |-> notExistsMsg]

UserExistsMoreThanOne(res) ==
    IF res.err THEN [exists |-> FALSE, msg |-> notExistsMsg]
    ELSE IF res.n > 1 THEN [exists |-> TRUE, msg |-> existsMsg]
    ELSE [exists |-> FALSE, msg |-> notExistsMsg]

UserExistsLastPage(res) ==
    IF res.err THEN [exists |-> FALSE, msg |-> notExistsMsg]
    ELSE IF res.n > 0 /\ ~res.more THEN [exists |-> TRUE, msg |-> existsMsg]
    ELSE [exists |-> FALSE, msg |-> notExistsMsg]

\* what UserExists returns for the outcome of its Query call (variant A
\* returns the boolean alone)
UserExists(res) ==
    IF res.err THEN [exists |-> FALSE, msg |-> notExistsMsg]
    ELSE IF res.n > 0 THEN [exists |-> TRUE, msg |-> existsMsg]
    ELSE [exists |-> FALSE, msg |-> notExistsMsg]

\* where UserExists goes after the Query call returned
AfterQueryPaginate(res) == IF ~res.err /\ res.more THEN "query" ELSE "respond"

AfterQuery(res) == "respond"

(* ---------------- the handler's return values ---------------- *)

ZeroResponse(v) ==
    IF v = "A" THEN [StatusCode |-> 0, Body |-> ""]
    ELSE [StatusCode |-> 0, Exists |-> FALSE, Message |-> ""]

\* return of the handler when json.Unmarshal failed with uerr
DecodeFailed(v, uerr) ==
    IF v = "A"
    THEN [resp |-> [StatusCode |-> 400, Body |-> "Invalid request"],
          err |-> "nil"]
    ELSE [resp |-> [StatusCode |-> 400, Exists |-> FALSE,
                    Message |-> "Invalid request"],
          err |-> uerr]

\* return of the handler when config.LoadDefaultConfig failed
ConfigFailed(v) ==
    IF v = "A"
    THEN [resp |-> [StatusCode |-> 500, Body |-> "Server error"],
          err |-> "nil"]
    ELSE [resp |-> [StatusCode |-> 500, Exists |-> FALSE,
                    Message |-> "Server error"],
          err |-> "ConfigError"]

\* return of the handler after UserExists returned ue
Answered(v, ue) ==
    IF v = "A"
    THEN [resp |-> [StatusCode |-> 200, Body |-> MarshalResponse(ue.exists)],
          err |-> "nil"]
    ELSE [resp |-> [StatusCode |-> 200, Exists |-> ue.exists,
                    Message |-> ue.msg],
          err |-> "nil"]

(* ---------------- state ---------------- *)

VARIABLES
    variant,    \* which of the two programs is deployed
    store,      \* items of the user table per email, as its email index sees them
    pc,         \* per invocation: idle, config, query, respond, done
    payload,    \* per invocation: the payload the runtime passed
    req,        \* per invocation: the handler's local Request
    cfgErr,     \* per invocation: error of config.LoadDefaultConfig, or "nil"
    result,     \* per invocation: outcome of the last db.Query
    queryLog,   \* per invocation: the QueryInputs it sent to the store
    resp,       \* per invocation: the response the handler returned
    rerr        \* per invocation: the error the handler returned

vars == <<variant, store, pc, payload, req, cfgErr, result, queryLog, resp, rerr>>

NoResult == [err |-> FALSE, n |-> 0, more |-> FALSE]

Init ==
    /\ variant \in Variants
    /\ store \in [StoredEmails -> 0 .. MaxItems]
    /\ pc = [i \in Inv |-> "idle"]
    /\ payload = [i \in Inv |-> ""]
    /\ req = [i \in Inv |-> ZeroRequest]
    /\ cfgErr = [i \in Inv |-> "nil"]
    /\ result = [i \in Inv |-> NoResult]
    /\ queryLog = [i \in Inv |-> <<>>]
    /\ resp = [i \in Inv |-> ZeroResponse(variant)]
    /\ rerr = [i \in Inv |-> "nil"]

\* the email the invocation hands to UserExists
ReqEmailShared(i) == req[1].Email

ReqEmail(i) == req[i].Email

\* the runtime calls handler with payload p; the handler decodes it and
\* returns the 400 response when decoding fails
Invoke(i, p) ==
    /\ pc[i] = "idle"
    /\ payload' = [payload EXCEPT ![i] = p]
    /\ LET u == Unmarshal(p) IN
       IF u.err # "nil"
       THEN /\ resp' = [resp EXCEPT ![i] = DecodeFailed(variant, u.err).resp]
            /\ rerr' = [rerr EXCEPT ![i] = DecodeFailed(variant, u.err).err]
            /\ pc' = [pc EXCEPT ![i] = "done"]
            /\ UNCHANGED req
       ELSE /\ req' = [req EXCEPT ![i] = u.req]
            /\ pc' = [pc EXCEPT ![i] = "config"]
            /\ UNCHANGED <<resp, rerr>>
    /\ UNCHANGED <<variant, store, cfgErr, result, queryLog>>

\* config.LoadDefaultConfig returns; on an error the handler returns the 500
\* response, otherwise it creates the client and enters UserExists
LoadConfig(i, ok) ==
    /\ pc[i] = "config"
    /\ IF ok
       THEN /\ pc' = [pc EXCEPT ![i] = "query"]
            /\ UNCHANGED <<cfgErr, resp, rerr>>
       ELSE /\ cfgErr' = [cfgErr EXCEPT ![i] = "ConfigError"]
            /\ resp' = [resp EXCEPT ![i] = ConfigFailed(variant).resp]
            /\ rerr' = [rerr EXCEPT ![i] = ConfigFailed(variant).err]
            /\ pc' = [pc EXCEPT ![i] = "done"]
    /\ UNCHANGED <<variant, store, payload, req, result, queryLog>>

\* UserExists builds the QueryInput and calls db.Query, which returns
Query(i) ==
    /\ pc[i] = "query"
    /\ LET input == QueryInput(ReqEmail(i), TableName) IN
       /\ queryLog' = [queryLog EXCEPT ![i] = Append(@, input)]
       /\ \E r \in QueryOutcomes(store, input) :
            /\ result' = [result EXCEPT ![i] = r]
            /\ pc' = [pc EXCEPT ![i] = AfterQuery(r)]
    /\ UNCHANGED <<variant, store, payload, req, cfgErr, resp, rerr>>

\* UserExists returns and the handler returns the 200 response
Respond(i) ==
    /\ pc[i] = "respond"
    /\ LET out == Answered(variant, UserExists(result[i])) IN
       /\ resp' = [resp EXCEPT ![i] = out.resp]
       /\ rerr' = [rerr EXCEPT ![i] = out.err]
    /\ pc' = [pc EXCEPT ![i] = "done"]
    /\ UNCHANGED <<variant, store, payload, req, cfgErr, result, queryLog>>

Next ==
    \E i \in Inv :
        \/ \E p \in Payloads : Invoke(i, p)
        \/ \E ok \in BOOLEAN : LoadConfig(i, ok)
        \/ Query(i)
        \/ Respond(i)

Spec == Init /\ [][Next]_vars

(* ---------------- notions the properties use ---------------- *)

Done(i) == pc[i] = "done"

\* the payload is not valid JSON, or its top-level value is not an object
NotAnObject(p) == ~ParseJSON(p).valid \/ ParseJSON(p).kind # "object"

\* json.Unmarshal of the invocation's payload failed
DecodeFailure(i) == Unmarshal(payload[i]).err # "nil"

\* the invocation got past decoding and config loading
Initialized(i) ==
    /\ pc[i] \in {"respond", "done"}
    /\ ~DecodeFailure(i)
    /\ cfgErr[i] = "nil"

\* the "exists" member a caller finds in the response: "true", "false", or
\* "none" when the response carries no such member
RespExists(i) ==
    IF variant = "A" THEN BodyExists(resp[i].Body)
    ELSE IF resp[i].Exists THEN "true" ELSE "false"

\* the message a caller finds in the response (the body text in variant A)
RespMessage(i) == IF variant = "A" THEN resp[i].Body ELSE resp[i].Message

\* what one invocation returns when it runs alone: decode, load the config,
\* query once, answer
Alone(v, p, cfgFails, queryFails, st) ==
    LET u == Unmarshal(p) IN
    IF u.err # "nil" THEN DecodeFailed(v, u.err)
    ELSE IF cfgFails THEN ConfigFailed(v)
    ELSE LET input == [TableName |-> "troggle_user",
                       IndexName |-> "email-index",
                       KeyConditionExpression |-> "email = :email",
                       email |-> u.req.Email]
             r == CHOOSE x \in QueryOutcomes(st, input) : x.err = queryFails
         IN  Answered(v, UserExists(r))

(* ---------------- C1 ---------------- *)

\* C1: an invocation whose payload is not valid JSON, or is JSON whose
\* top-level value is not an object, answers statusCode 400 with
\* exists=false and never issues a Query.
C1_NonObjectRejected ==
    \A i \in Inv :
        (pc[i] # "idle" /\ NotAnObject(payload[i])) =>
            /\ queryLog[i] = <<>>
            /\ pc[i] = "done"
            /\ resp[i].StatusCode = 400
            /\ RespExists(i) = "false"

(* ---------------- C2 ---------------- *)

\* C2: whenever payload decoding or config loading fails, the handler
\* returns its 400 resp. 500 response together with a nil error, in both
\* variants.
C2_NilErrorOnFailure ==
    \A i \in Inv :
        (Done(i) /\ (DecodeFailure(i) \/ cfgErr[i] # "nil")) =>
            /\ resp[i].StatusCode = (IF DecodeFailure(i) THEN 400 ELSE 500)
            /\ rerr[i] = "nil"

(* ---------------- C3 ---------------- *)

\* C3: when decoding and config loading succeed and the Query call returns
\* an error, the response is statusCode 200 with exists=false (message
\* "User does not exist" in variant B), and it is the response an invocation
\* gets whose Query succeeded with zero items.
C3_QueryErrorIsNotFound ==
    \A i \in Inv :
        (Done(i) /\ Initialized(i) /\ result[i].err) =>
            /\ resp[i].StatusCode = 200
            /\ RespExists(i) = "false"
            /\ variant = "B" => resp[i].Message = "User does not exist"
            /\ \A j \in Inv :
                (Done(j) /\ Initialized(j) /\ ~result[j].err /\ result[j].n = 0)
                    => (resp[j] = resp[i] /\ rerr[j] = rerr[i])

C3_Witness ==
    \E i, j \in Inv :
        /\ Done(i) /\ Initialized(i) /\ result[i].err
        /\ Done(j) /\ Initialized(j) /\ ~result[j].err /\ result[j].n = 0

(* ---------------- C4 ---------------- *)

\* C4: when the Query call succeeds, UserExists answers exists=true exactly
\* when the Query returned at least one item for the email (which is exactly
\* when the email index holds at least one item for it), and exists=false
\* when it returned none; in variant B the message is "User exists" resp.
\* "User does not exist".
C4_ExistsIffItems ==
    \A i \in Inv :
        (Initialized(i) /\ ~result[i].err) =>
            /\ UserExists(result[i]).exists = (result[i].n > 0)
            /\ (result[i].n > 0)
                 = (Count(store, Unmarshal(payload[i]).req.Email) > 0)
            /\ Done(i) =>
                 /\ RespExists(i) = (IF result[i].n > 0 THEN "true" ELSE "false")
                 /\ variant = "B" =>
                      resp[i].Message = (IF result[i].n > 0 THEN "User exists"
                                         ELSE "User does not exist")

C4_Witness ==
    \E i, j \in Inv :
        /\ Done(i) /\ Initialized(i) /\ ~result[i].err /\ result[i].n > 1
        /\ Done(j) /\ Initialized(j) /\ ~result[j].err /\ result[j].n = 0

(* ---------------- C5 ---------------- *)

\* C5: in variant A the body of every response, whatever its status code,
\* is the JSON encoding of an object {"exists": <bool>}.
C5_BodyIsExistsObject ==
    variant = "A" =>
        \A i \in Inv :
            Done(i) =>
                /\ resp[i].StatusCode \in {200, 400, 500}
                /\ BodyExists(resp[i].Body) \in {"true", "false"}

(* ---------------- C6 ---------------- *)

\* C6: an invocation whose payload decodes but whose config loading fails
\* answers statusCode 500 with exists=false and message "Server error", and
\* issues no Query.
C6_ConfigFailureIs500 ==
    \A i \in Inv :
        (Done(i) /\ ~DecodeFailure(i) /\ cfgErr[i] # "nil") =>
            /\ resp[i].StatusCode = 500
            /\ RespExists(i) = "false"
            /\ RespMessage(i) = "Server error"
            /\ queryLog[i] = <<>>

(* ---------------- C7 ---------------- *)

\* C7: an invocation that decoded its payload and loaded the config has
\* issued exactly one Query by the time UserExists returns, whatever the
\* Query's outcome, and no invocation ever issues more than one.
C7_ExactlyOneQuery ==
    \A i \in Inv :
        /\ Len(queryLog[i]) <= 1
        /\ Initialized(i) => Len(queryLog[i]) = 1
        /\ (DecodeFailure(i) \/ cfgErr[i] # "nil") => Len(queryLog[i]) = 0

C7_Witness ==
    \E i \in Inv :
        /\ Done(i) /\ Initialized(i)
        /\ ~result[i].err /\ result[i].more
        /\ Len(queryLog[i]) = 1

(* ---------------- C8 ---------------- *)

SameAnswer(i, j) == resp[i] = resp[j] /\ rerr[i] = rerr[j]

\* C8 as stated: two invocations with the same payload against the same
\* store contents return identical responses, and no step changes the store.
C8_SamePayloadSameAnswer ==
    [][ /\ store' = store
        /\ \A i, j \in Inv :
             (Done(i)' /\ Done(j)' /\ payload'[i] = payload'[j])
                 => SameAnswer(i, j)' ]_vars

\* C8 amended: two invocations with the same payload, the same outcome of
\* config loading and the same outcome (error or success) of the Query call
\* return identical responses against the same store contents, and no step
\* changes the store.
C8_SameOutcomesSameAnswer ==
    [][ /\ store' = store
        /\ \A i, j \in Inv :
             ( /\ Done(i)' /\ Done(j)'
               /\ payload'[i] = payload'[j]
               /\ cfgErr'[i] = cfgErr'[j]
               /\ result'[i].err = result'[j].err )
                 => SameAnswer(i, j)' ]_vars

C8_Witness ==
    \E i, j \in Inv :
        /\ i # j
        /\ Done(i) /\ Done(j)
        /\ payload[i] = payload[j]
        /\ Initialized(i) /\ Initialized(j)
        /\ ~result[i].err /\ ~result[j].err
        /\ result[i].n # result[j].n
        /\ RespExists(i) = "true"

(* ---------------- C9 ---------------- *)

\* C9: every Query any invocation issues targets table "troggle_user"
\* through index "email-index" with an equality condition on the email
\* decoded from that invocation's own payload.
C9_FixedTableAndIndex ==
    \A i \in Inv :
        \A k \in 1 .. Len(queryLog[i]) :
            /\ queryLog[i][k].TableName = "troggle_user"
            /\ queryLog[i][k].IndexName = "email-index"
            /\ queryLog[i][k].KeyConditionExpression = "email = :email"
            /\ queryLog[i][k].email = Unmarshal(payload[i]).req.Email

C9_Witness ==
    \E i, j \in Inv :
        /\ Len(queryLog[i]) = 1 /\ Len(queryLog[j]) = 1
        /\ queryLog[i][1].email = "a@x"
        /\ queryLog[j][1].email = ""

(* ---------------- C10 ---------------- *)

\* C10: under every interleaving of the steps of the invocations, each
\* invocation returns what it returns when run alone against the same store
\* contents with the same outcomes of its own config load and its own Query.
C10_Independent ==
    \A i \in Inv :
        Done(i) =>
            [resp |-> resp[i], err |-> rerr[i]]
                = Alone(variant, payload[i], cfgErr[i] # "nil",
                        result[i].err, store)

C10_Witness ==
    \E i, j \in Inv :
        /\ Done(i) /\ Done(j)
        /\ Initialized(i) /\ Initialized(j)
        /\ payload[i] # payload[j]
        /\ RespExists(i) = "true"
        /\ RespExists(j) = "false"
        /\ ~result[j].err

====
